---- MODULE Spec2Model ----
(***************************************************************************)
(* A model of plugins/ai_subtitle/translate/ollama_translate.py: the       *)
(* Ollama chat client's translate_text (with its private helpers           *)
(* __send_request, __get_session, __save_session) and clear_session.       *)
(*                                                                         *)
(* Strings are sequences of tokens: a prompt is the sequence of its fixed  *)
(* parts and its interpolated arguments, a model reply is a sequence of    *)
(* characters (so that str.strip() is computed, not assumed).  Python      *)
(* lists are mutable objects: the list a call works on is either its own   *)
(* (a fresh list) or the very list stored in the session cache (an alias), *)
(* and an append to an aliased list is an append to the cache entry.       *)
(***************************************************************************)
EXTENDS Integers, Sequences, FiniteSets, TLC

\* Number of translate_text calls a behaviour may start.
MaxCalls == 3

\* Python's None, for the optional string arguments.
None == "None"

\* The threads that may call translate_text.  Spec uses thread 1 only
\* (strictly sequential calls); ConcSpec runs both.
Procs == {1, 2}

----------------------------------------------------------------------------
(* Inputs *)

Texts == {"Hello", "Bye"}
Langs == {"zh", "en"}
Contexts == {None, "", "scene 3"}
SessionIdArgs == {None, "", "s1", "s2"}
CacheArgs == {TRUE, FALSE}          \* TRUE: the dict is passed; FALSE: session_cache=None

\* A dict is a set of <<key, value>> pairs with distinct keys.
Keys(d) == {kv[1] : kv \in d}
Get(d, k) == (CHOOSE kv \in d : kv[1] = k)[2]

\* dict.update(other): other's pairs replace the pairs with the same key.
Update(d, other) == {kv \in d : kv[1] \notin Keys(other)} \cup other

\* The keyword arguments translate_text may be called with (**kwargs).
KwargsArgs ==
    { {},
      {<<"temperature", "0.5">>},
      {<<"num_ctx", "2048">>},
      {<<"top_p", "0.5">>, <<"seed", "7">>},
      {<<"stream", "True">>},
      {<<"messages", "[]">>} }

----------------------------------------------------------------------------
(* Messages and prompts *)

Msg(role, content) == [role |-> role, content |-> content]

\* translate_text, the f-string of the system prompt: it names target_lang.
system_prompt(target_lang) ==
    <<"You are a professional translator; rules: 1. translate precisely into ",
      target_lang,
      "; 2. natural wording; 3. keep terms consistent; 4. output the translation only">>

\* __get_session's literal system message: it names no language.
SessionSystemPrompt ==
    <<"You are a professional translator; translate between Chinese and English.">>

\* translate_text, the user message; `if context:` is false for None and "".
user_message(text, context) ==
    IF context \in {None, ""}
      THEN <<"Text to translate:\n", text>>
      ELSE <<"Translation context:\n", context, "\n\n", "Text to translate:\n", text>>

\* Fault variant of uses_session: `session_id is not None` in place of the
\* truth test, so that an empty id counts as a session.
uses_session_not_none(session_id, has_cache) ==
    session_id # None /\ has_cache

\* `if session_id and session_cache is not None`
uses_session(session_id, has_cache) ==
    session_id \notin {None, ""} /\ has_cache

\* __get_session on the list `session` that session_cache.get(session_id, [])
\* returned: the list after the two appends.
get_session(session, message) ==
    LET seeded == IF session = <<>>
                    THEN <<Msg("system", SessionSystemPrompt)>>
                    ELSE session
    IN  Append(seeded, Msg("user", message))

\* __save_session: the cache after it.
save_session(c, session_id, assistant_message) ==
    LET session == IF session_id \in DOMAIN c THEN c[session_id] ELSE <<>>
        stored  == Append(session, Msg("assistant", assistant_message))
    IN  [k \in DOMAIN c \cup {session_id} |-> IF k = session_id THEN stored ELSE c[k]]

\* Fault variant of clear_session: `del session_cache[session_id]` without
\* the membership test, a KeyError for an id that has no entry.
clear_session_unguarded(c, session_id) ==
    IF session_id \in DOMAIN c
      THEN [cache |-> [k \in DOMAIN c \ {session_id} |-> c[k]], raised |-> FALSE]
      ELSE [cache |-> c, raised |-> TRUE]

\* clear_session: the cache after it, and whether it raised.
clear_session(c, session_id) ==
    IF session_id \in DOMAIN c
      THEN [cache |-> [k \in DOMAIN c \ {session_id} |-> c[k]], raised |-> FALSE]
      ELSE [cache |-> c, raised |-> FALSE]

----------------------------------------------------------------------------
(* The request: __send_request *)

BaseUrl == "http://127.0.0.1:11434"
Model == "huihui_ai/hunyuan-mt-abliterated:latest"

\* The options literal of the payload, built anew by every __send_request.
DefaultOptions == {<<"temperature", "0.1">>, <<"top_p", "0.9">>}

\* translate_text calls self.__send_request(messages, **kwargs), and
\* __send_request is declared (self, messages, stream=False, **kwargs):
\* Python binds the keyword `stream` to the parameter stream, refuses a
\* keyword `messages` (TypeError: multiple values for argument 'messages')
\* and collects the remaining keywords in __send_request's own kwargs.
bind_error(kwargs) == "messages" \in Keys(kwargs)
bind_stream(kwargs) ==
    IF "stream" \in Keys(kwargs) THEN Get(kwargs, "stream") ELSE "False"
bind_kwargs(kwargs) == {kv \in kwargs : kv[1] # "stream"}

\* payload["options"] after payload["options"].update(kwargs)
send_options(kwargs) == Update(DefaultOptions, bind_kwargs(kwargs))

\* The JSON body that requests.post serialises, with the URL it is sent to.
send_payload(msgs, kwargs) ==
    [ url      |-> <<BaseUrl, "/api/chat">>,
      model    |-> Model,
      messages |-> msgs,
      stream   |-> bind_stream(kwargs),
      options  |-> send_options(kwargs) ]

NoRequest ==
    [url |-> <<>>, model |-> "", messages |-> <<>>, stream |-> "", options |-> {}]

----------------------------------------------------------------------------
(* The response *)

\* requests.post raising (ConnectionError, Timeout) or raise_for_status
\* raising (HTTPError) on a 4xx/5xx status: all are RequestException.
TransportFailures == {"ConnectionError", "Timeout", "HTTPError: 500"}

\* A 200 body, by what translate_text inspects of it:
\*   json    whether response.json() parses it
\*   top     the type of the parsed value
\*   message the type of its "message" member, or "absent"
\*   content the type of message's "content" member, or "absent"
\*   text    the characters of a string content
Body(json, top, message, content, text) ==
    [json |-> json, top |-> top, message |-> message, content |-> content, text |-> text]

NoBody == Body(FALSE, "absent", "absent", "absent", <<>>)

GoodBodies ==
    { Body(TRUE, "dict", "dict", "str", <<" ", "o", " ", "k", "\n">>),
      Body(TRUE, "dict", "dict", "str", <<"o", " ", "k">>),
      Body(TRUE, "dict", "dict", "str", <<"\t", "o", " ", "k">>) }

BadBodies ==
    { Body(FALSE, "absent", "absent", "absent", <<>>),   \* not JSON
      Body(TRUE, "dict", "absent", "absent", <<>>),      \* {}
      Body(TRUE, "dict", "dict", "absent", <<>>),        \* {"message": {}}
      Body(TRUE, "dict", "null", "absent", <<>>),        \* {"message": null}
      Body(TRUE, "dict", "str", "absent", <<>>),         \* {"message": "x"}
      Body(TRUE, "dict", "dict", "null", <<>>),          \* {"message": {"content": null}}
      Body(TRUE, "dict", "dict", "num", <<>>),           \* {"message": {"content": 5}}
      Body(TRUE, "list", "absent", "absent", <<>>),      \* []
      Body(TRUE, "null", "absent", "absent", <<>>) }     \* null

Responses ==
    {[status |-> s, body |-> NoBody] : s \in TransportFailures}
      \cup {[status |-> "200", body |-> b] : b \in GoodBodies \cup BadBodies}

Whitespace == {" ", "\n", "\t"}

RECURSIVE lstrip(_)
lstrip(s) == IF s # <<>> /\ Head(s) \in Whitespace THEN lstrip(Tail(s)) ELSE s

RECURSIVE rstrip(_)
rstrip(s) ==
    IF s # <<>> /\ s[Len(s)] \in Whitespace
      THEN rstrip(SubSeq(s, 1, Len(s) - 1))
      ELSE s

\* str.strip()
strip(s) == rstrip(lstrip(s))

\* What lines 143-148 make of a response: "ok" with the translated text,
\* "format" (the else branch), or "exception" with str(e).
Outcome(kind, text) == [kind |-> kind, text |-> text]

response_outcome(r) ==
    LET b == r.body IN
    IF r.status \in TransportFailures
      THEN Outcome("exception", <<"request to Ollama API failed: ", r.status>>)
    ELSE IF ~b.json
      THEN Outcome("exception", <<"JSONDecodeError">>)
    ELSE IF b.top \notin {"dict", "list"}
      THEN Outcome("exception", <<"TypeError: argument is not iterable">>)
    ELSE IF b.message = "absent"
      THEN Outcome("format", <<>>)
    ELSE IF b.message \in {"null", "num"}
      THEN Outcome("exception", <<"TypeError: argument is not iterable">>)
    ELSE IF b.message = "str" \/ b.content = "absent"
      THEN Outcome("format", <<>>)
    ELSE IF b.content # "str"
      THEN Outcome("exception", <<"AttributeError: no attribute 'strip'">>)
    ELSE Outcome("ok", strip(b.text))

----------------------------------------------------------------------------
(* What translate_text hands back: how the call ended ("return" or         *)
(* "raise"), the tuple it returned, and the line of the return statement.  *)

Result(how, ok, payload, line) ==
    [how |-> how, ok |-> ok, payload |-> payload, line |-> line]

NoResult == Result("none", FALSE, <<>>, 0)

\* line 154
return_success(translated_text) == Result("return", TRUE, translated_text, 154)

\* line 156
FormatError == <<"unexpected API response format">>
return_format_error == Result("return", FALSE, FormatError, 156)

\* Fault variant of except_clause: the handler lets the exception go on to
\* the caller.
except_clause_reraises(e) == Result("raise", FALSE, <<"translation error: ">> \o e, 159)

\* lines 158-159: except Exception as e
except_clause(e) == Result("return", FALSE, <<"translation error: ">> \o e, 159)

----------------------------------------------------------------------------
(* State *)

VARIABLES
    cache,       \* the caller's session_cache dict: session id -> list of messages
    pc,          \* per thread: "idle", "send", "wait", "save", "done"
    args,        \* per thread: the arguments of its translate_text call
    messages,    \* per thread: the local `messages` list: the cache entry's own
                 \*   list (alias) or a list of the call's own
    translated,  \* per thread: the local translated_text
    wire,        \* per thread: the request in flight
    posts,       \* per thread: the POSTs the current call has issued
    result,      \* per thread: what the call handed back
    calls,       \* translate_text calls started so far
    before,      \* history: per thread, the cache when its call started
    okrun,       \* history: per session id, the calls made with it since it last
                 \*   had no entry, when all of them succeeded; -1 once one failed
    cleared,     \* history: the session ids whose entry clear_session removed
                 \*   and with which no call has returned since
    raised,      \* whether a clear_session call raised
    overlap      \* history: whether two calls have been in progress at once

vars == <<cache, pc, args, messages, translated, wire, posts, result, calls,
          before, okrun, cleared, raised, overlap>>

SessionKeys == SessionIdArgs \ {None}

EmptyCache == [k \in {} |-> <<>>]

NoArgs ==
    [text |-> "", target_lang |-> "", context |-> None, session_id |-> None,
     has_cache |-> FALSE, kwargs |-> {}]

OwnList(l) == [alias |-> FALSE, own |-> l]
CacheList == [alias |-> TRUE, own |-> <<>>]


Init ==
    /\ cache = EmptyCache
    /\ pc = [p \in Procs |-> "idle"]
    /\ args = [p \in Procs |-> NoArgs]
    /\ messages = [p \in Procs |-> OwnList(<<>>)]
    /\ translated = [p \in Procs |-> <<>>]
    /\ wire = [p \in Procs |-> NoRequest]
    /\ posts = [p \in Procs |-> 0]
    /\ result = [p \in Procs |-> NoResult]
    /\ calls = 0
    /\ before = [p \in Procs |-> EmptyCache]
    /\ okrun = [k \in SessionKeys |-> 0]
    /\ cleared = {}
    /\ raised = FALSE
    /\ overlap = FALSE

InSession(p) == uses_session(args[p].session_id, args[p].has_cache)

\* The contents of thread p's `messages` list.
Messages(p) ==
    IF messages[p].alias THEN cache[args[p].session_id] ELSE messages[p].own

InProgress(p) == pc[p] \in {"send", "wait", "save"}

\* History bookkeeping when thread p's call ends with success flag ok and
\* the cache c.
Ended(p, ok, c) ==
    LET id == args[p].session_id IN
    /\ okrun' = IF ~InSession(p) THEN okrun
                ELSE IF ok THEN [okrun EXCEPT ![id] = IF @ >= 0 THEN @ + 1 ELSE @]
                ELSE [okrun EXCEPT ![id] = IF id \in DOMAIN c THEN -1 ELSE 0]
    /\ cleared' = IF InSession(p) THEN cleared \ {id} ELSE cleared

\* The call returns: its frame goes, and with it its locals.  Of the
\* arguments the history keeps the two that say which session it was on.
Returned(p) ==
    /\ args' = [args EXCEPT ![p] =
                  [NoArgs EXCEPT !.session_id = args[p].session_id,
                                 !.has_cache = args[p].has_cache]]
    /\ messages' = [messages EXCEPT ![p] = OwnList(<<>>)]
    /\ translated' = [translated EXCEPT ![p] = <<>>]

----------------------------------------------------------------------------
(* translate_text *)

\* Lines 100-139: the call, its prompts, and the messages list.
Call(p, text, target_lang, context, session_id, has_cache, kwargs) ==
    LET user == user_message(text, context)
        sess == uses_session(session_id, has_cache)
    IN
    /\ pc[p] \in {"idle", "done"}
    /\ calls < MaxCalls
    /\ calls' = calls + 1
    /\ pc' = [pc EXCEPT ![p] = "send"]
    /\ args' = [args EXCEPT ![p] =
                  [text |-> text, target_lang |-> target_lang, context |-> context,
                   session_id |-> session_id, has_cache |-> has_cache,
                   kwargs |-> kwargs]]
    /\ IF sess /\ session_id \in DOMAIN cache
         THEN \* session_cache.get returns the stored list; the appends are in place
              /\ cache' = [cache EXCEPT ![session_id] = get_session(@, user)]
              /\ messages' = [messages EXCEPT ![p] = CacheList]
         ELSE IF sess
         THEN \* session_cache.get returns a new [] that the cache does not hold
              /\ cache' = cache
              /\ messages' = [messages EXCEPT ![p] = OwnList(get_session(<<>>, user))]
         ELSE /\ cache' = cache
              /\ messages' = [messages EXCEPT ![p] =
                    OwnList(<<Msg("system", system_prompt(target_lang)),
                              Msg("user", user)>>)]
    /\ translated' = [translated EXCEPT ![p] = <<>>]
    /\ wire' = [wire EXCEPT ![p] = NoRequest]
    /\ posts' = [posts EXCEPT ![p] = 0]
    /\ result' = [result EXCEPT ![p] = NoResult]
    /\ before' = [before EXCEPT ![p] = cache]
    /\ overlap' = (overlap \/ \E q \in Procs \ {p} : InProgress(q))
    /\ UNCHANGED <<okrun, cleared, raised>>

\* Line 143 and lines 29-60: bind the keywords, build the payload, POST it.
SendRequest(p) ==
    /\ pc[p] = "send"
    /\ IF bind_error(args[p].kwargs)
         THEN /\ result' = [result EXCEPT ![p] =
                    except_clause(<<"TypeError: multiple values for argument 'messages'">>)]
              /\ pc' = [pc EXCEPT ![p] = "done"]
              /\ Ended(p, FALSE, cache)
              /\ Returned(p)
              /\ UNCHANGED <<wire, posts>>
         ELSE /\ wire' = [wire EXCEPT ![p] = send_payload(Messages(p), args[p].kwargs)]
              /\ posts' = [posts EXCEPT ![p] = @ + 1]
              /\ pc' = [pc EXCEPT ![p] = "wait"]
              /\ UNCHANGED <<result, okrun, cleared, args, messages, translated>>
    /\ UNCHANGED <<cache, calls, before, raised, overlap>>

\* Lines 61-64 and 144-159: the response r arrives.
Receive(p, r) ==
    LET out == response_outcome(r) IN
    /\ pc[p] = "wait"
    /\ wire' = [wire EXCEPT ![p] = NoRequest]
    /\ IF out.kind = "ok" /\ InSession(p)
         THEN /\ translated' = [translated EXCEPT ![p] = out.text]
              /\ pc' = [pc EXCEPT ![p] = "save"]
              /\ UNCHANGED <<result, okrun, cleared, args, messages>>
         ELSE /\ result' = [result EXCEPT ![p] =
                    IF out.kind = "ok" THEN return_success(out.text)
                    ELSE IF out.kind = "format" THEN return_format_error
                    ELSE except_clause(out.text)]
              /\ pc' = [pc EXCEPT ![p] = "done"]
              /\ Ended(p, out.kind = "ok", cache)
              /\ Returned(p)
    /\ UNCHANGED <<cache, posts, calls, before, raised, overlap>>

\* Lines 151-154: __save_session, then return.
SaveSession(p) ==
    /\ pc[p] = "save"
    /\ cache' = save_session(cache, args[p].session_id, translated[p])
    /\ result' = [result EXCEPT ![p] = return_success(translated[p])]
    /\ pc' = [pc EXCEPT ![p] = "done"]
    /\ Ended(p, TRUE, cache')
    /\ Returned(p)
    /\ UNCHANGED <<wire, posts, calls, before, raised, overlap>>

----------------------------------------------------------------------------
(* clear_session.  The caller calls it between its translate_text calls:  *)
(* what the last call handed back is behind it.                            *)

ClearSession(session_id) ==
    LET r == clear_session(cache, session_id) IN
    /\ \A p \in Procs : ~InProgress(p)
    /\ cache' = r.cache
    /\ raised' = r.raised
    /\ cleared' = IF session_id \in DOMAIN cache THEN cleared \cup {session_id}
                                                 ELSE cleared
    /\ okrun' = [okrun EXCEPT ![session_id] = 0]
    /\ pc' = [p \in Procs |-> "idle"]
    /\ args' = [p \in Procs |-> NoArgs]
    /\ result' = [p \in Procs |-> NoResult]
    /\ before' = [p \in Procs |-> EmptyCache]
    /\ UNCHANGED <<messages, translated, wire, posts, calls, overlap>>

----------------------------------------------------------------------------
(* Specifications *)

\* One caller: its calls are strictly sequential.
Next ==
    \/ \E text \in Texts, target_lang \in Langs, context \in Contexts,
          session_id \in SessionIdArgs, has_cache \in CacheArgs, kwargs \in KwargsArgs :
          Call(1, text, target_lang, context, session_id, has_cache, kwargs)
    \/ SendRequest(1)
    \/ \E r \in Responses : Receive(1, r)
    \/ SaveSession(1)
    \/ \E session_id \in SessionKeys : ClearSession(session_id)

Spec == Init /\ [][Next]_vars

\* Two callers on the same session id and the same cache, no lock.
ConcResponses ==
    {[status |-> "HTTPError: 500", body |-> NoBody],
     [status |-> "200", body |-> Body(TRUE, "dict", "dict", "str", <<"o", " ", "k">>)]}

ConcNext ==
    \E p \in Procs :
        \/ \E text \in Texts, target_lang \in Langs :
              Call(p, text, target_lang, None, "s1", TRUE, {})
        \/ SendRequest(p)
        \/ \E r \in ConcResponses : Receive(p, r)
        \/ SaveSession(p)

ConcSpec == Init /\ [][ConcNext]_vars

----------------------------------------------------------------------------
(* Vocabulary of the properties *)

\* The call of thread p names a usable session: an id that is neither absent
\* nor empty, and a cache that is not null.
UsableSession(p) == args[p].session_id \notin {None, ""} /\ args[p].has_cache

Roles(l) == [i \in 1..Len(l) |-> l[i].role]

\* [system, user, assistant, user, assistant, ...]
ExpectedRole(i) ==
    IF i = 1 THEN "system" ELSE IF i % 2 = 0 THEN "user" ELSE "assistant"

\* The call of thread p ended on a transport failure of its POST.
TransportFailed(p) ==
    /\ pc[p] = "done"
    /\ Len(result[p].payload) = 3
    /\ result[p].payload[3] \in TransportFailures

\* No two user messages and no two assistant messages are adjacent, and every
\* assistant message directly follows a user message.
TurnOrderIntact(l) ==
    \A i \in 1..Len(l) :
        /\ l[i].role = "assistant" => (i > 1 /\ l[i - 1].role = "user")
        /\ l[i].role = "user" => (i = 1 \/ l[i - 1].role # "user")

\* t is c without its leading and trailing whitespace.
Trimmed(t, c) ==
    /\ \E i, j \in 0..Len(c) :
          /\ i + j <= Len(c)
          /\ t = SubSeq(c, i + 1, Len(c) - j)
          /\ \A x \in 1..i : c[x] \in Whitespace
          /\ \A x \in (Len(c) - j + 1)..Len(c) : c[x] \in Whitespace
    /\ t = <<>> \/ (t[1] \notin Whitespace /\ t[Len(t)] \notin Whitespace)

\* The 200 body has a message object with a string content.
HasContent(r) ==
    /\ r.status = "200"
    /\ r.body.json /\ r.body.top = "dict" /\ r.body.message = "dict"
    /\ r.body.content = "str"

\* The 200 body parses and has no message object with a content field.
LacksContent(r) ==
    /\ r.status = "200"
    /\ r.body.json
    /\ ~(r.body.top = "dict" /\ r.body.message = "dict" /\ r.body.content # "absent")

----------------------------------------------------------------------------
(* C1 *)

\* C1: for a session id with no entry, after k >= 1 sequential successful
\* calls with it the stored sequence is [system, user1, assistant1, ...,
\* user_k, assistant_k], of length 2k+1 with its one system message first;
\* the second call sends [system, user1, assistant1, user2].
C1_StoredSequence ==
    \A id \in {"s1", "s2"} :
        /\ (okrun[id] >= 1 /\ \A p \in Procs : ~InProgress(p)) =>
              /\ id \in DOMAIN cache
              /\ Len(cache[id]) = 2 * okrun[id] + 1
              /\ \A i \in 1..Len(cache[id]) : cache[id][i].role = ExpectedRole(i)
        /\ \A p \in Procs :
              (pc[p] = "wait" /\ UsableSession(p) /\ args[p].session_id = id
                 /\ okrun[id] = 1) =>
                    Roles(wire[p].messages) = <<"system", "user", "assistant", "user">>

----------------------------------------------------------------------------
(* C2 *)

\* C2: a call whose POST fails at the transport level returns (false,
\* message) and leaves the session cache exactly as it was before the call.
C2_TransportFailureKeepsCache ==
    \A p \in Procs :
        TransportFailed(p) => (~result[p].ok /\ cache = before[p])

----------------------------------------------------------------------------
(* C3 *)

\* C3: in session mode the first message sent by the call that creates the
\* session is the system prompt naming that call's target language, and a
\* later call on the session sends the session's stored system message first.
C3_SessionSystemPrompt ==
    \A p \in Procs :
        (pc[p] = "wait" /\ UsableSession(p)) =>
            LET id == args[p].session_id
                first == wire[p].messages[1]
            IN  IF id \notin DOMAIN before[p]
                  THEN first = Msg("system", system_prompt(args[p].target_lang))
                  ELSE first.role = "system" /\ first = before[p][id][1]

----------------------------------------------------------------------------
(* C4 *)

\* C4: when the POST succeeds and the parsed body has no message object with
\* a content field, the call returns (false, the fixed format message) from
\* its else branch, not from the except clause, and stores nothing.
C4_FormatError ==
    [][\A r \in Responses :
          (LacksContent(r) /\ Receive(1, r)) =>
              /\ result'[1] = Result("return", FALSE, FormatError, 156)
              /\ cache' = cache]_vars

----------------------------------------------------------------------------
(* C5 *)

C5_Cleared ==
    /\ ~raised
    /\ \A id \in cleared : id \notin DOMAIN cache
    /\ \A p \in Procs :
          (pc[p] \in {"send", "wait"} /\ UsableSession(p)
             /\ args[p].session_id \in cleared) =>
                /\ Roles(Messages(p)) = <<"system", "user">>
                /\ Messages(p)[2].content = user_message(args[p].text, args[p].context)
                /\ pc[p] = "wait" => wire[p].messages = Messages(p)

C5_ClearStep ==
    \A id \in SessionKeys :
        ClearSession(id) =>
            /\ ~raised'
            /\ id \notin DOMAIN cache'
            /\ DOMAIN cache' = DOMAIN cache \ {id}
            /\ \A k \in DOMAIN cache' : cache'[k] = cache[k]
            /\ id \notin DOMAIN cache => cache' = cache

\* C5: clear_session removes the id's entry when there is one, so that a
\* lookup finds none and a later call with the id starts from an empty
\* session; it changes nothing when there is none; it never raises and never
\* touches another session's entry.
C5_ClearSession == []C5_Cleared /\ [][C5_ClearStep]_vars

\* An entry was cleared while another session's entry stayed, and a later
\* call with the cleared id has sent its request.
C5_Witness ==
    \E p \in Procs :
        /\ pc[p] = "wait" /\ UsableSession(p)
        /\ args[p].session_id \in cleared
        /\ cache # EmptyCache

----------------------------------------------------------------------------
(* C6 *)

\* C6: the options of every request body are the defaults {temperature:
\* 0.1, top_p: 0.9} overridden by the call's extra options: every key the
\* caller names carries the caller's value, every other default its default.
C6_Options ==
    \A p \in Procs :
        pc[p] = "wait" =>
            LET kw == args[p].kwargs
                o  == wire[p].options
            IN  /\ Keys(o) = {"temperature", "top_p"} \cup Keys(kw)
                /\ \A k \in Keys(kw) : Get(o, k) = Get(kw, k)
                /\ "temperature" \notin Keys(kw) => Get(o, "temperature") = "0.1"
                /\ "top_p" \notin Keys(kw) => Get(o, "top_p") = "0.9"

----------------------------------------------------------------------------
(* C7 *)

\* C7: every call issues exactly one POST, to {baseUrl}/api/chat with
\* stream=false: never a second one, and none returns without having sent it.
C7_ExactlyOnePost ==
    \A p \in Procs :
        /\ posts[p] <= 1
        /\ pc[p] = "done" => posts[p] = 1
        /\ pc[p] = "wait" =>
              /\ posts[p] = 1
              /\ wire[p].url = <<BaseUrl, "/api/chat">>
              /\ wire[p].stream = "False"

----------------------------------------------------------------------------
(* C8 *)

C8_Returned ==
    \A p \in Procs :
        /\ result[p].how # "raise"
        /\ pc[p] = "done" =>
              /\ result[p].how = "return"
              /\ result[p].ok => posts[p] = 1
              /\ ~result[p].ok => result[p].payload # <<>>

C8_Step ==
    /\ \A r \in Responses :
          Receive(1, r) =>
              IF HasContent(r)
                THEN IF UsableSession(1)
                       THEN /\ pc'[1] = "save"
                            /\ Trimmed(translated'[1], r.body.text)
                       ELSE /\ pc'[1] = "done"
                            /\ result'[1].ok
                            /\ Trimmed(result'[1].payload, r.body.text)
                ELSE pc'[1] = "done" /\ ~result'[1].ok
    /\ SaveSession(1) =>
          /\ pc'[1] = "done"
          /\ result'[1].ok
          /\ result'[1].payload = translated[1]

----------------------------------------------------------------------------
(* C9 *)

\* C9: under strictly sequential calls that all succeed the stored sequence
\* never has two adjacent user or two adjacent assistant messages, nor an
\* assistant message that does not directly follow its user message (two
\* concurrent calls on the same id can reach such a state: C9_Concurrent).
C9_SequentialTurnOrder ==
    (~overlap /\ okrun["s1"] >= 0 /\ "s1" \in DOMAIN cache) =>
        TurnOrderIntact(cache["s1"])

\* Two overlapping calls on the same id have left two user messages or two
\* assistant messages side by side in the stored sequence.
C9_Concurrent ==
    /\ overlap
    /\ "s1" \in DOMAIN cache
    /\ \E i \in 1..(Len(cache["s1"]) - 1) :
          /\ cache["s1"][i].role = cache["s1"][i + 1].role
          /\ cache["s1"][i].role \in {"user", "assistant"}

----------------------------------------------------------------------------
(* C10 *)

\* C10: a call without a usable session (no id, an empty id, or a null
\* cache) sends exactly [system prompt for its target language, user
\* message] and leaves the session cache as it was, whatever its outcome.
C10_NoSession ==
    \A p \in Procs :
        (~UsableSession(p) /\ pc[p] \in {"send", "wait", "done"}) =>
            /\ cache = before[p]
            /\ pc[p] = "wait" =>
                  wire[p].messages =
                      <<Msg("system", system_prompt(args[p].target_lang)),
                        Msg("user", user_message(args[p].text, args[p].context))>>

\* A call that names an existing session but passes no cache has returned
\* its translation.
C10_Witness ==
    \E p \in Procs :
        /\ pc[p] = "done" /\ result[p].ok
        /\ args[p].session_id \in DOMAIN cache /\ ~args[p].has_cache

====
